---------------------------- MODULE Spec2Model ----------------------------
(***************************************************************************)
(* Model of pkg/kubecost/cloudcostitem.go: CloudCostItem, CloudCostItemSet *)
(* and CloudCostItemSetRange.                                              *)
(*                                                                         *)
(* Go pointers and maps are references, so the model keeps an explicit     *)
(* memory: `items` holds every CloudCostItem object ever allocated (a      *)
(* *CloudCostItem is an index into it), `labels` every CloudCostItemLabels *)
(* map, `sets` every CloudCostItemSet.  Nil is the nil pointer.            *)
(*                                                                         *)
(* time.Time is an integer number of time units.  float64 costs are exact  *)
(* rationals: every cost the callers supply is a multiple of CostUnit, the *)
(* least common multiple of the possible window durations, so that         *)
(* cost * pct is an integer; float64 rounding is outside the model.        *)
(***************************************************************************)
EXTENDS Integers, Sequences, FiniteSets, TLC

VARIABLES
    items,   \* memory: the CloudCostItem objects, by pointer
    labels,  \* memory: the CloudCostItemLabels maps, by pointer
    sets,    \* memory: the CloudCostItemSet objects, by pointer
    held,    \* the *CloudCostItem pointers the caller built and still holds
    rng,     \* the caller's CloudCostItemSetRange (<<>> when it has none)
    calls,   \* number of calls made so far
    log,     \* history: per set, the items given to its successful Inserts
    made,    \* history: per set, the call that allocated it and its receiver
    last     \* the last call: operation, operands, results, memory before it

vars == <<items, labels, sets, held, rng, calls, log, made, last>>

(***************************************************************************)
(* Bounds of the model.                                                    *)
(***************************************************************************)
MaxCalls == 2     \* calls after construction (Spec)
MaxInserts == 3   \* Insert calls on the set (SpecInsert)
MaxLoads == 2     \* calls on the range (SpecLoad)
MaxBuckets == 2   \* buckets of the range (SpecLoad)

Nil == 0

Mem == [items |-> items, labels |-> labels, sets |-> sets]

Min(a, b) == IF a < b THEN a ELSE b
Max(a, b) == IF a > b THEN a ELSE b

RECURSIVE Gcd(_, _)
Gcd(a, b) == IF b = 0 THEN a ELSE Gcd(b, a % b)

RECURSIVE LcmUpTo(_)
LcmUpTo(n) == IF n <= 1 THEN 1 ELSE LET l == LcmUpTo(n - 1) IN (l * n) \div Gcd(l, n)

\* the longest window an item loaded into a range has
MaxDuration == 2 * MaxBuckets + 2

\* every cost the callers supply is a multiple of CostUnit, so that
\* cost * pct is exact
CostUnit == LcmUpTo(MaxDuration)

\* A fixed enumeration of a finite set (Go ranges over a map in an
\* unspecified order; the keys of one map are distinct, so the order only
\* decides which pointer each copy gets).
RECURSIVE SeqOf(_)
SeqOf(S) == IF S = {} THEN <<>> ELSE LET x == CHOOSE y \in S : TRUE IN <<x>> \o SeqOf(S \ {x})

(***************************************************************************)
(* Window (pkg/kubecost/window.go is not among the sources: modelled from  *)
(* section 4.1 of the specification).  start and end are optional: <<>>    *)
(* is the unset pointer, <<t>> points to time t.                           *)
(***************************************************************************)
NewWindow(start, end) == [start |-> start, end |-> end]

ClosedWindow(s, e) == NewWindow(<<s>>, <<e>>)

IsOpen(w) == w.start = <<>> \/ w.end = <<>>

Start(w) == w.start[1]

End(w) == w.end[1]

Duration(w) == End(w) - Start(w)

Window_Clone(w) == NewWindow(w.start, w.end)

Window_Equal(w, that) == w.start = that.start /\ w.end = that.end

\* union: min(start), max(end); used on closed windows only
Expand(w, that) ==
    ClosedWindow(Min(Start(w), Start(that)), Max(End(w), End(that)))

\* intersection with that, clipped
Contract(w, that) ==
    ClosedWindow(Max(Start(w), Start(that)), Min(End(w), End(that)))

\* The fraction of `that` lying inside w, as the rational num/den:
\* max(0, min(ends) - max(starts)) / (that.end - that.start).  No overlap
\* (an empty `that` included) is 0.
GetPercentInWindow(w, that) ==
    LET s == Max(Start(that), Start(w))
        e == Min(End(that), End(w))
    IN  IF e - s <= 0 THEN [num |-> 0, den |-> 1]
        ELSE [num |-> e - s, den |-> Duration(that)]

\* float64 arithmetic on fractions and costs, exact
PctZero == [num |-> 0, den |-> 1]

PctAdd(p, q) == [num |-> p.num * q.den + q.num * p.den, den |-> p.den * q.den]

PctIsZero(p) == p.num = 0

PctLtOne(p) == p.num < p.den

PctGeOne(p) == p.num >= p.den

MulPct(cost, p) == (cost * p.num) \div p.den

(***************************************************************************)
(* CloudCostItemLabels, CloudCostItemProperties, CloudCostItem             *)
(***************************************************************************)
\* the empty Go map
EmptyMap == [k \in {} |-> ""]

\* the contents of the map behind a labels pointer (a nil map reads as empty)
LabelsOf(m, lp) == IF lp = Nil THEN EmptyMap ELSE m.labels[lp]

CloudCostItemLabels_Clone(m, lp) ==
    [mem |-> [m EXCEPT !.labels = Append(@, LabelsOf(m, lp))],
     ret |-> Len(m.labels) + 1]

CloudCostItemLabels_Equal(m, lp, that) ==
    LET a == LabelsOf(m, lp)
        b == LabelsOf(m, that)
    IN  /\ Cardinality(DOMAIN a) = Cardinality(DOMAIN b)
        /\ \A k \in DOMAIN a : k \in DOMAIN b /\ a[k] = b[k]

CloudCostItemProperties_Equal(m, p, that) ==
    /\ p.ProviderID = that.ProviderID
    /\ p.Provider = that.Provider
    /\ p.WorkGroupID = that.WorkGroupID
    /\ p.BillingID = that.BillingID
    /\ p.Service = that.Service
    /\ p.Category = that.Category
    /\ CloudCostItemLabels_Equal(m, p.Labels, that.Labels)

CloudCostItemProperties_Clone(m, p) ==
    LET c == CloudCostItemLabels_Clone(m, p.Labels)
    IN  [mem |-> c.mem, ret |-> [p EXCEPT !.Labels = c.ret]]

Key(p) ==
    p.Provider \o "/" \o p.BillingID \o "/" \o p.WorkGroupID \o "/"
        \o p.Category \o "/" \o p.Service \o "/" \o p.ProviderID

\* allocate a CloudCostItem object
AllocItem(m, it) ==
    [mem |-> [m EXCEPT !.items = Append(@, it)], ret |-> Len(m.items) + 1]

NewCloudCostItem(m, start, end, props, isKubernetes, cost, netcost) ==
    AllocItem(m, [Properties |-> props,
                  IsKubernetes |-> isKubernetes,
                  Window |-> ClosedWindow(start, end),
                  Cost |-> cost,
                  NetCost |-> netcost])

\* Clone that copies the struct and shares the label map
CloudCostItem_Clone_Shallow(m, cci) == AllocItem(m, m.items[cci])

CloudCostItem_Clone(m, cci) ==
    LET it == m.items[cci]
        c == CloudCostItemProperties_Clone(m, it.Properties)
    IN  AllocItem(c.mem, [Properties |-> c.ret,
                          IsKubernetes |-> it.IsKubernetes,
                          Window |-> Window_Clone(it.Window),
                          Cost |-> it.Cost,
                          NetCost |-> it.NetCost])

CloudCostItem_Equal(m, cci, that) ==
    IF that = Nil THEN FALSE
    ELSE LET a == m.items[cci]
             b == m.items[that]
         IN  /\ CloudCostItemProperties_Equal(m, a.Properties, b.Properties)
             /\ a.IsKubernetes = b.IsKubernetes
             /\ Window_Equal(a.Window, b.Window)
             /\ a.Cost = b.Cost
             /\ a.NetCost = b.NetCost

CloudCostItem_Key(m, cci) == Key(m.items[cci].Properties)

\* add without the expansion of the window
add_KeepWindow(m, cci, that) ==
    IF cci = Nil THEN m
    ELSE LET t == m.items[that]
         IN  [m EXCEPT !.items[cci] =
                 [@ EXCEPT !.Cost = @ + t.Cost, !.NetCost = @ + t.NetCost]]

\* cci.add(that): the receiver survives; returns the memory after
add(m, cci, that) ==
    IF cci = Nil THEN m
    ELSE LET t == m.items[that]
         IN  [m EXCEPT !.items[cci] =
                 [@ EXCEPT !.Cost = @ + t.Cost,
                           !.NetCost = @ + t.NetCost,
                           !.Window = Expand(@, t.Window)]]

(***************************************************************************)
(* CloudCostItemSet                                                        *)
(***************************************************************************)
\* Insert that replaces the entry of an existing key by a copy of the item
Insert_Overwrite(m, ccis, that) ==
    IF ccis = Nil THEN [mem |-> m, err |-> TRUE]
    ELSE IF that = Nil THEN [mem |-> m, err |-> TRUE]
    ELSE LET k == CloudCostItem_Key(m, that)
             c == CloudCostItem_Clone(m, that)
         IN  [mem |-> [c.mem EXCEPT !.sets[ccis].CloudCostItems =
                           (k :> c.ret) @@ @],
              err |-> FALSE]

\* ccis.Insert(that): returns the memory after and whether an error is returned
Insert(m, ccis, that) ==
    IF ccis = Nil THEN [mem |-> m, err |-> TRUE]
    ELSE IF that = Nil THEN [mem |-> m, err |-> TRUE]
    ELSE LET k == CloudCostItem_Key(m, that)
         IN  IF k \notin DOMAIN m.sets[ccis].CloudCostItems
             THEN LET c == CloudCostItem_Clone(m, that)
                  IN  [mem |-> [c.mem EXCEPT !.sets[ccis].CloudCostItems =
                                    (k :> c.ret) @@ @],
                       err |-> FALSE]
             ELSE [mem |-> add(m, m.sets[ccis].CloudCostItems[k], that),
                   err |-> FALSE]

\* ccis.Insert(cci) for each cci of the sequence, in order; the first error
\* stops the loop when stopOnErr (Accumulate) and is ignored otherwise
RECURSIVE InsertAll(_, _, _, _)
InsertAll(m, ccis, ccisSeq, stopOnErr) ==
    IF ccisSeq = <<>> THEN [mem |-> m, err |-> FALSE]
    ELSE LET r == Insert(m, ccis, Head(ccisSeq))
         IN  IF r.err /\ stopOnErr THEN r
             ELSE InsertAll(r.mem, ccis, Tail(ccisSeq), stopOnErr)

\* the item pointers of a set, in the order the model ranges over its map
ItemsOf(m, ccis) ==
    LET f == m.sets[ccis].CloudCostItems
    IN  [i \in 1..Cardinality(DOMAIN f) |-> f[SeqOf(DOMAIN f)[i]]]

AllocSet(m, s) ==
    [mem |-> [m EXCEPT !.sets = Append(@, s)], ret |-> Len(m.sets) + 1]

NewCloudCostItemSet(m, start, end, cloudCostItems) ==
    LET a == AllocSet(m, [CloudCostItems |-> EmptyMap,
                          Window |-> ClosedWindow(start, end),
                          Integration |-> ""])
    IN  [mem |-> InsertAll(a.mem, a.ret, cloudCostItems, FALSE).mem,
         ret |-> a.ret]

IsEmpty(m, ccis) ==
    IF ccis = Nil THEN TRUE
    ELSE DOMAIN m.sets[ccis].CloudCostItems = {}

Length(m, ccis) ==
    IF ccis = Nil THEN 0
    ELSE Cardinality(DOMAIN m.sets[ccis].CloudCostItems)

\* items[k] = v.Clone() for each k, v of the map
RECURSIVE CloneItems(_, _, _, _)
CloneItems(m, f, ks, acc) ==
    IF ks = <<>> THEN [mem |-> m, ret |-> acc]
    ELSE LET c == CloudCostItem_Clone(m, f[Head(ks)])
         IN  CloneItems(c.mem, f, Tail(ks), (Head(ks) :> c.ret) @@ acc)

CloudCostItemSet_Clone(m, ccis) ==
    LET s == m.sets[ccis]
        c == CloneItems(m, s.CloudCostItems, SeqOf(DOMAIN s.CloudCostItems), EmptyMap)
    IN  AllocSet(c.mem, [CloudCostItems |-> c.ret,
                         Window |-> Window_Clone(s.Window),
                         Integration |-> s.Integration])

\* Accumulate that gives the result the receiver's window
Accumulate_ReceiverWindow(m, ccis, that) ==
    IF IsEmpty(m, ccis)
    THEN LET c == CloudCostItemSet_Clone(m, that)
         IN  [mem |-> c.mem, ret |-> c.ret, err |-> FALSE]
    ELSE IF IsEmpty(m, that)
    THEN LET c == CloudCostItemSet_Clone(m, ccis)
         IN  [mem |-> c.mem, ret |-> c.ret, err |-> FALSE]
    ELSE LET wa == m.sets[ccis].Window
             acc == NewCloudCostItemSet(m, Start(wa), End(wa), <<>>)
             r1 == InsertAll(acc.mem, acc.ret, ItemsOf(m, ccis), TRUE)
             r2 == InsertAll(r1.mem, acc.ret, ItemsOf(m, that), TRUE)
         IN  [mem |-> r2.mem, ret |-> acc.ret, err |-> FALSE]

\* ccis.Accumulate(that), that not nil: the memory after, the set returned
\* (Nil with an error) and whether an error is returned
Accumulate(m, ccis, that) ==
    IF IsEmpty(m, ccis)
    THEN LET c == CloudCostItemSet_Clone(m, that)
         IN  [mem |-> c.mem, ret |-> c.ret, err |-> FALSE]
    ELSE IF IsEmpty(m, that)
    THEN LET c == CloudCostItemSet_Clone(m, ccis)
         IN  [mem |-> c.mem, ret |-> c.ret, err |-> FALSE]
    ELSE LET wa == m.sets[ccis].Window
             wb == m.sets[that].Window
             start == IF Start(wb) < Start(wa) THEN Start(wb) ELSE Start(wa)
             end == IF End(wb) > End(wa) THEN End(wb) ELSE End(wa)
             acc == NewCloudCostItemSet(m, start, end, <<>>)
             r1 == InsertAll(acc.mem, acc.ret, ItemsOf(m, ccis), TRUE)
             r2 == InsertAll(r1.mem, acc.ret, ItemsOf(m, that), TRUE)
         IN  IF r1.err THEN [mem |-> r1.mem, ret |-> Nil, err |-> TRUE]
             ELSE IF r2.err THEN [mem |-> r2.mem, ret |-> Nil, err |-> TRUE]
             ELSE [mem |-> r2.mem, ret |-> acc.ret, err |-> FALSE]

CloudCostItemSet_Equal(m, ccis, that) ==
    LET a == m.sets[ccis]
        b == m.sets[that]
    IN  /\ a.Integration = b.Integration
        /\ Window_Equal(a.Window, b.Window)
        /\ Cardinality(DOMAIN a.CloudCostItems) = Cardinality(DOMAIN b.CloudCostItems)
        /\ \A k \in DOMAIN a.CloudCostItems :
              /\ k \in DOMAIN b.CloudCostItems
              /\ CloudCostItem_Equal(m, a.CloudCostItems[k], b.CloudCostItems[k])

\* matcher.Matcher[*CloudCostItem]: the predicates the callers compile (the
\* matcher package is not among the sources); "nil" is the nil matcher
Matchers == {"nil", "provider=aws", "isKubernetes"}

Matches(m, filters, cci) ==
    CASE filters = "provider=aws" -> m.items[cci].Properties.Provider = "aws"
      [] filters = "isKubernetes" -> m.items[cci].IsKubernetes
      [] OTHER -> FALSE

\* result.Insert(cci.Clone()) for each cci the filter matches
RECURSIVE FilterInto(_, _, _, _)
FilterInto(m, result, filters, ccisSeq) ==
    IF ccisSeq = <<>> THEN m
    ELSE IF Matches(m, filters, Head(ccisSeq))
    THEN LET c == CloudCostItem_Clone(m, Head(ccisSeq))
         IN  FilterInto(Insert(c.mem, result, c.ret).mem, result, filters, Tail(ccisSeq))
    ELSE FilterInto(m, result, filters, Tail(ccisSeq))

\* Filter that returns the set itself for the nil matcher
Filter_NilReturnsSelf(m, ccis, filters) ==
    IF ccis = Nil THEN [mem |-> m, ret |-> Nil]
    ELSE IF filters = "nil" THEN [mem |-> m, ret |-> ccis]
    ELSE LET w == m.sets[ccis].Window
             result == NewCloudCostItemSet(m, Start(w), End(w), <<>>)
         IN  [mem |-> FilterInto(result.mem, result.ret, filters, ItemsOf(m, ccis)),
              ret |-> result.ret]

Filter(m, ccis, filters) ==
    IF ccis = Nil THEN [mem |-> m, ret |-> Nil]
    ELSE IF filters = "nil" THEN CloudCostItemSet_Clone(m, ccis)
    ELSE LET w == m.sets[ccis].Window
             result == NewCloudCostItemSet(m, Start(w), End(w), <<>>)
         IN  [mem |-> FilterInto(result.mem, result.ret, filters, ItemsOf(m, ccis)),
              ret |-> result.ret]

Merge(m, ccis, that) ==
    IF ccis = Nil THEN [mem |-> m, ret |-> Nil, err |-> TRUE]
    ELSE IF IsEmpty(m, that)
    THEN LET c == CloudCostItemSet_Clone(m, ccis)
         IN  [mem |-> c.mem, ret |-> c.ret, err |-> FALSE]
    ELSE IF ~Window_Equal(m.sets[ccis].Window, m.sets[that].Window)
    THEN [mem |-> m, ret |-> Nil, err |-> TRUE]
    ELSE LET w == m.sets[ccis].Window
             result == NewCloudCostItemSet(m, Start(w), End(w), <<>>)
             r1 == InsertAll(result.mem, result.ret, ItemsOf(m, ccis), FALSE)
             r2 == InsertAll(r1.mem, result.ret, ItemsOf(m, that), FALSE)
         IN  [mem |-> r2.mem, ret |-> result.ret, err |-> FALSE]

(***************************************************************************)
(* CloudCostItemSetRange                                                   *)
(***************************************************************************)
\* GetWindows(start, end, window): the windows of duration `window` covering
\* [start, end], or an error when the span is not a multiple of it
GetWindows(start, end, window) ==
    IF (end - start) % window # 0 THEN [ret |-> <<>>, err |-> TRUE]
    ELSE [ret |-> [i \in 1..((end - start) \div window) |->
                      ClosedWindow(start + (i - 1) * window, start + i * window)],
          err |-> FALSE]

\* ccis := NewCloudCostItemSet(w.Start(), w.End()); ccis.Integration = integration
RECURSIVE NewBuckets(_, _, _, _)
NewBuckets(m, windows, integration, acc) ==
    IF windows = <<>> THEN [mem |-> m, ret |-> acc]
    ELSE LET w == Head(windows)
             c == NewCloudCostItemSet(m, Start(w), End(w), <<>>)
         IN  NewBuckets([c.mem EXCEPT !.sets[c.ret].Integration = integration],
                        Tail(windows), integration, Append(acc, c.ret))

NewCloudCostItemSetRange(m, start, end, window, integration) ==
    LET ws == GetWindows(start, end, window)
        b == NewBuckets(m, ws.ret, integration, <<>>)
    IN  IF ws.err THEN [mem |-> m, ret |-> <<>>, err |-> TRUE]
        ELSE [mem |-> b.mem,
              ret |-> [CloudCostItemSets |-> b.ret, Window |-> ClosedWindow(start, end)],
              err |-> FALSE]

\* the loop of ccisr.Accumulate(): cloudCostItemSet, err = cloudCostItemSet.Accumulate(ccis);
\* AccumulateStep is the loop's body after that call returned r
RECURSIVE AccumulateLoop(_, _, _), AccumulateStep(_, _)
AccumulateStep(r, rest) ==
    IF r.err THEN [mem |-> r.mem, ret |-> Nil, err |-> TRUE]
    ELSE AccumulateLoop(r.mem, rest, r.ret)

AccumulateLoop(m, ccisSeq, cloudCostItemSet) ==
    IF ccisSeq = <<>> THEN [mem |-> m, ret |-> cloudCostItemSet, err |-> FALSE]
    ELSE AccumulateStep(Accumulate(m, cloudCostItemSet, Head(ccisSeq)), Tail(ccisSeq))

CloudCostItemSetRange_Accumulate(m, ccisr) ==
    AccumulateLoop(m, ccisr.CloudCostItemSets, Nil)

\* the loop with the whole cost given to every bucket the item overlaps
RECURSIVE LoadLoop_FullCost(_, _, _, _, _)
LoadLoop_FullCost(m, ccisSeq, i, cloudCostItem, totalPct) ==
    IF i > Len(ccisSeq) THEN m
    ELSE LET ccis == ccisSeq[i]
             it == m.items[cloudCostItem]
             pct == GetPercentInWindow(m.sets[ccis].Window, it.Window)
             cci == IF PctLtOne(pct)
                    THEN AllocItem(m, [it EXCEPT !.Window = Contract(@, m.sets[ccis].Window)])
                    ELSE [mem |-> m, ret |-> cloudCostItem]
             r == Insert(cci.mem, ccis, cci.ret)
             total == PctAdd(totalPct, pct)
         IN  IF PctIsZero(pct)
             THEN LoadLoop_FullCost(m, ccisSeq, i + 1, cloudCostItem, totalPct)
             ELSE IF PctGeOne(total) THEN r.mem
             ELSE LoadLoop_FullCost(r.mem, ccisSeq, i + 1, cloudCostItem, total)

\* the loop of LoadCloudCostItem from bucket i on; returns the memory after
RECURSIVE LoadLoop(_, _, _, _, _)
LoadLoop(m, ccisSeq, i, cloudCostItem, totalPct) ==
    IF i > Len(ccisSeq) THEN m
    ELSE LET ccis == ccisSeq[i]
             it == m.items[cloudCostItem]
             window == it.Window
             setWindow == m.sets[ccis].Window
             pct == GetPercentInWindow(setWindow, window)
             cci == IF PctLtOne(pct)
                    THEN AllocItem(m, [Properties |-> it.Properties,
                                       IsKubernetes |-> it.IsKubernetes,
                                       Window |-> Contract(window, setWindow),
                                       Cost |-> MulPct(it.Cost, pct),
                                       NetCost |-> MulPct(it.NetCost, pct)])
                    ELSE [mem |-> m, ret |-> cloudCostItem]
             r == Insert(cci.mem, ccis, cci.ret)
             total == PctAdd(totalPct, pct)
         IN  IF PctIsZero(pct) THEN LoadLoop(m, ccisSeq, i + 1, cloudCostItem, totalPct)
             ELSE IF PctGeOne(total) THEN r.mem
             ELSE LoadLoop(r.mem, ccisSeq, i + 1, cloudCostItem, total)

LoadCloudCostItem(m, ccisr, cloudCostItem) ==
    IF IsOpen(m.items[cloudCostItem].Window) THEN m
    ELSE LoadLoop(m, ccisr.CloudCostItemSets, 1, cloudCostItem, PctZero)

(***************************************************************************)
(* The callers' inputs                                                     *)
(***************************************************************************)
Props(provider, billingID, workGroupID, category, service, providerID, lbls) ==
    [ProviderID |-> providerID, Provider |-> provider, WorkGroupID |-> workGroupID,
     BillingID |-> billingID, Service |-> service, Category |-> category,
     Labels |-> lbls]

\* the label maps the callers build: pointers 1 and 2
PoolLabels == <<("eks_cluster_name" :> "c1"), ("team" :> "a")>>

\* The arguments of the callers' NewCloudCostItem calls.  Items 1 and 2 have
\* the same properties but for their labels; item 3 is another resource with
\* a nil label map; items 4 and 5 differ in BillingID and WorkGroupID, yet
\* their keys are the same string.
PoolArgs ==
    <<[start |-> 0, end |-> 1, isKubernetes |-> TRUE,
       cost |-> 2 * CostUnit, netcost |-> CostUnit,
       props |-> Props("aws", "acct", "wg", "Compute", "ec2", "i-1", 1)],
      [start |-> 1, end |-> 3, isKubernetes |-> FALSE,
       cost |-> CostUnit, netcost |-> CostUnit,
       props |-> Props("aws", "acct", "wg", "Compute", "ec2", "i-1", 2)],
      [start |-> 0, end |-> 2, isKubernetes |-> FALSE,
       cost |-> 3 * CostUnit, netcost |-> 2 * CostUnit,
       props |-> Props("gcp", "proj", "x", "Storage", "gcs", "b-2", Nil)],
      [start |-> 2, end |-> 4, isKubernetes |-> TRUE,
       cost |-> 5 * CostUnit, netcost |-> 4 * CostUnit,
       props |-> Props("azure", "sub/rg", "w", "Compute", "vm", "v-3", 2)],
      [start |-> 1, end |-> 2, isKubernetes |-> TRUE,
       cost |-> 7 * CostUnit, netcost |-> 7 * CostUnit,
       props |-> Props("azure", "sub", "rg/w", "Compute", "vm", "v-3", 1)]>>

RECURSIVE BuildPool(_, _)
BuildPool(m, args) ==
    IF args = <<>> THEN m
    ELSE LET a == Head(args)
         IN  BuildPool(NewCloudCostItem(m, a.start, a.end, a.props, a.isKubernetes,
                                        a.cost, a.netcost).mem,
                       Tail(args))

\* the memory once the callers have built their items
PoolMem == BuildPool([items |-> <<>>, labels |-> PoolLabels, sets |-> <<>>], PoolArgs)

\* the items handed to NewCloudCostItemSet(start, end, items...) for the
\* first set and for the second, and those loaded into a new range
FirstArgs == {<<>>, <<1>>, <<2, 3>>}

SecondArgs == {<<>>, <<2, 3>>}

RangeLoads == {<<1>>, <<2, 3>>}

\* the windows of the second set: that of the first set, or another
SecondWindows == {<<0, 2>>, <<1, 4>>}

SetPtrs == 1..Len(sets)

\* the sets the callers call on: the two they built and the last one returned
Operands == {1, 2, Len(sets)}

\* the operand pairs of Insert: every operand with an item, and the calls on
\* nil and with nil
InsertPairs == (Operands \X {2, 3}) \cup {<<Nil, 2>>, <<1, Nil>>}

\* the operand pairs of Accumulate: two different operands, or the first set
\* with itself
AccumulatePairs == {p \in Operands \X Operands : p[1] # p[2]} \cup {<<1, 1>>}

\* the operand pairs of Merge: those of Accumulate, and the calls on nil and
\* with nil
MergePairs == AccumulatePairs \cup {<<Nil, 1>>, <<1, Nil>>, <<2, Nil>>}

SetMem(m) == items' = m.items /\ labels' = m.labels /\ sets' = m.sets

Called(op, recv, arg, filters, ret, err, pre) ==
    [op |-> op, recv |-> recv, arg |-> arg, filters |-> filters,
     ret |-> ret, err |-> err, pre |-> pre]

NoCall(m) == Called("init", Nil, Nil, "nil", Nil, FALSE, m)

\* the log entries of the items given to a constructor
LogOf(m, ccis, args) == [i \in 1..Len(args) |-> [set |-> ccis, item |-> m.items[args[i]]]]

\* the history of the sets a call allocated
MadeBy(op, from, before, after) ==
    [i \in 1..(Len(after.sets) - Len(before.sets)) |-> [op |-> op, from |-> from]]

(***************************************************************************)
(* Spec: two sets built by NewCloudCostItemSet, or the two buckets of a    *)
(* range built by NewCloudCostItemSetRange and loaded; then calls on them  *)
(* and on the sets the calls return.                                       *)
(***************************************************************************)
InitSets ==
    \E aArgs \in FirstArgs, bArgs \in SecondArgs, bw \in SecondWindows :
        LET a == NewCloudCostItemSet(PoolMem, 0, 2, aArgs)
            ma == [a.mem EXCEPT !.sets[a.ret].Integration = "aws"]
            b == NewCloudCostItemSet(ma, bw[1], bw[2], bArgs)
            mb == [b.mem EXCEPT !.sets[b.ret].Integration = "gcp"]
        IN  /\ items = mb.items
            /\ labels = mb.labels
            /\ sets = mb.sets
            /\ held = 1..Len(PoolArgs)
            /\ rng = <<>>
            /\ calls = 0
            /\ log = LogOf(PoolMem, a.ret, aArgs) \o LogOf(PoolMem, b.ret, bArgs)
            /\ made = MadeBy("NewCloudCostItemSet", Nil, PoolMem, mb)
            /\ last = NoCall(mb)

RECURSIVE LoadAll(_, _, _)
LoadAll(m, ccisr, args) ==
    IF args = <<>> THEN m
    ELSE LoadAll(LoadCloudCostItem(m, ccisr, Head(args)), ccisr, Tail(args))

InitRange ==
    \E args \in RangeLoads :
        LET r == NewCloudCostItemSetRange(PoolMem, 0, 4, 2, "aws")
            m == LoadAll(r.mem, r.ret, args)
        IN  /\ items = m.items
            /\ labels = m.labels
            /\ sets = m.sets
            /\ held = 1..Len(PoolArgs)
            /\ rng = r.ret
            /\ calls = 0
            /\ log = <<>>
            /\ made = MadeBy("NewCloudCostItemSetRange", Nil, PoolMem, m)
            /\ last = NoCall(m)

Init == InitSets \/ InitRange

InsertCall(bound, pairs) ==
    /\ calls < bound
    /\ \E p \in pairs :
          LET ccis == p[1]
              that == p[2]
              r == Insert(Mem, ccis, that)
          IN  /\ SetMem(r.mem)
              /\ last' = Called("Insert", ccis, that, "nil", Nil, r.err, Mem)
              /\ log' = IF r.err THEN log
                        ELSE Append(log, [set |-> ccis, item |-> items[that]])
    /\ calls' = calls + 1
    /\ UNCHANGED <<held, rng, made>>

CallInsert == InsertCall(MaxCalls, InsertPairs)

CallAccumulate ==
    /\ calls < MaxCalls
    /\ \E p \in AccumulatePairs :
          LET ccis == p[1]
              that == p[2]
              r == Accumulate(Mem, ccis, that)
          IN  /\ SetMem(r.mem)
              /\ made' = made \o MadeBy("Accumulate", ccis, Mem, r.mem)
              /\ last' = Called("Accumulate", ccis, that, "nil", r.ret, r.err, Mem)
    /\ calls' = calls + 1
    /\ UNCHANGED <<held, rng, log>>

CallMerge ==
    /\ calls < MaxCalls
    /\ \E p \in MergePairs :
          LET ccis == p[1]
              that == p[2]
              r == Merge(Mem, ccis, that)
          IN  /\ SetMem(r.mem)
              /\ made' = made \o MadeBy("Merge", ccis, Mem, r.mem)
              /\ last' = Called("Merge", ccis, that, "nil", r.ret, r.err, Mem)
    /\ calls' = calls + 1
    /\ UNCHANGED <<held, rng, log>>

CallFilter ==
    /\ calls < MaxCalls
    /\ \E ccis \in {1, 2}, filters \in Matchers :
          LET r == Filter(Mem, ccis, filters)
          IN  /\ SetMem(r.mem)
              /\ made' = made \o MadeBy("Filter", ccis, Mem, r.mem)
              /\ last' = Called("Filter", ccis, Nil, filters, r.ret, FALSE, Mem)
    /\ calls' = calls + 1
    /\ UNCHANGED <<held, rng, log>>

CallClone ==
    /\ calls < MaxCalls
    /\ \E ccis \in Operands :
          LET r == CloudCostItemSet_Clone(Mem, ccis)
          IN  /\ SetMem(r.mem)
              /\ made' = made \o MadeBy("Clone", ccis, Mem, r.mem)
              /\ last' = Called("Clone", ccis, Nil, "nil", r.ret, FALSE, Mem)
    /\ calls' = calls + 1
    /\ UNCHANGED <<held, rng, log>>

\* the caller loads one of the items it holds into its range
CallLoadHeld ==
    /\ calls < MaxCalls
    /\ rng # <<>>
    /\ \E that \in {1, 2, 3} :
          /\ SetMem(LoadCloudCostItem(Mem, rng, that))
          /\ last' = Called("LoadCloudCostItem", Nil, that, "nil", Nil, FALSE, Mem)
    /\ calls' = calls + 1
    /\ UNCHANGED <<held, rng, log, made>>

Next ==
    \/ CallInsert
    \/ CallAccumulate
    \/ CallMerge
    \/ CallFilter
    \/ CallClone
    \/ CallLoadHeld

Spec == Init /\ [][Next]_vars

(***************************************************************************)
(* SpecInsert: one set built empty, then Insert calls on it.               *)
(***************************************************************************)
InitInsert ==
    LET a == NewCloudCostItemSet(PoolMem, 0, 2, <<>>)
    IN  /\ items = a.mem.items
        /\ labels = a.mem.labels
        /\ sets = a.mem.sets
        /\ held = 1..Len(PoolArgs)
        /\ rng = <<>>
        /\ calls = 0
        /\ log = <<>>
        /\ made = MadeBy("NewCloudCostItemSet", Nil, PoolMem, a.mem)
        /\ last = NoCall(a.mem)

CallInsertOnly == InsertCall(MaxInserts, (SetPtrs \cup {Nil}) \X (held \cup {Nil}))

NextInsert == CallInsertOnly

SpecInsert == InitInsert /\ [][NextInsert]_vars

(***************************************************************************)
(* SpecLoad: a range built by NewCloudCostItemSetRange, then               *)
(* LoadCloudCostItem and Accumulate calls on it.                           *)
(***************************************************************************)
\* the bucket durations the range is built with
BucketDurations == {1, 2}

InitLoad ==
    \E window \in BucketDurations :
        LET m0 == [items |-> <<>>, labels |-> PoolLabels, sets |-> <<>>]
            r == NewCloudCostItemSetRange(m0, 0, MaxBuckets * window, window, "aws")
        IN  /\ items = r.mem.items
            /\ labels = r.mem.labels
            /\ sets = r.mem.sets
            /\ held = {}
            /\ rng = r.ret
            /\ calls = 0
            /\ log = <<>>
            /\ made = MadeBy("NewCloudCostItemSetRange", Nil, m0, r.mem)
            /\ last = NoCall(r.mem)

\* times from one unit before the range's span to one unit after it
LoadTimes == (Start(rng.Window) - 1)..(End(rng.Window) + 1)

\* The items the callers load: one resource over every window of positive
\* duration, and another over the range's whole span.
LoadArgs ==
    {[start |-> w[1], end |-> w[2], isKubernetes |-> TRUE,
      cost |-> 2 * CostUnit, netcost |-> CostUnit,
      props |-> Props("aws", "acct", "wg", "Compute", "ec2", "i-1", 1)] :
        w \in {x \in LoadTimes \X LoadTimes : x[1] < x[2]}}
    \cup
    {[start |-> Start(rng.Window), end |-> End(rng.Window), isKubernetes |-> FALSE,
      cost |-> CostUnit, netcost |-> 3 * CostUnit,
      props |-> Props("gcp", "proj", "x", "Storage", "gcs", "b-2", Nil)]}

\* the caller builds an item with NewCloudCostItem and loads it
CallLoadCloudCostItem ==
    /\ calls < MaxLoads
    /\ \E a \in LoadArgs :
          LET c == NewCloudCostItem(Mem, a.start, a.end, a.props, a.isKubernetes,
                                    a.cost, a.netcost)
          IN  /\ SetMem(LoadCloudCostItem(c.mem, rng, c.ret))
              /\ held' = held \cup {c.ret}
              /\ last' = Called("LoadCloudCostItem", Nil, c.ret, "nil", Nil, FALSE, c.mem)
    /\ calls' = calls + 1
    /\ UNCHANGED <<rng, log, made>>

\* the caller loads an item whose window has no start
CallLoadOpen ==
    /\ calls < MaxLoads
    /\ LET c == AllocItem(Mem, [Properties |-> Props("aws", "acct", "wg", "Compute", "ec2", "i-1", 1),
                                 IsKubernetes |-> TRUE,
                                 Window |-> NewWindow(<<>>, <<End(rng.Window)>>),
                                 Cost |-> 2 * CostUnit,
                                 NetCost |-> CostUnit])
       IN  /\ SetMem(LoadCloudCostItem(c.mem, rng, c.ret))
           /\ held' = held \cup {c.ret}
           /\ last' = Called("LoadCloudCostItem", Nil, c.ret, "nil", Nil, FALSE, c.mem)
    /\ calls' = calls + 1
    /\ UNCHANGED <<rng, log, made>>

\* the state after ccisr.Accumulate() returned r
RangeAccumulated(r) ==
    /\ SetMem(r.mem)
    /\ made' = made \o MadeBy("RangeAccumulate", Nil, Mem, r.mem)
    /\ last' = Called("RangeAccumulate", Nil, Nil, "nil", r.ret, r.err, Mem)

CallRangeAccumulate ==
    /\ calls < MaxLoads
    /\ RangeAccumulated(CloudCostItemSetRange_Accumulate(Mem, rng))
    /\ calls' = calls + 1
    /\ UNCHANGED <<held, rng, log>>

NextLoad == CallLoadCloudCostItem \/ CallLoadOpen \/ CallRangeAccumulate

SpecLoad == InitLoad /\ [][NextLoad]_vars

(***************************************************************************)
(* What the claims are stated with                                         *)
(***************************************************************************)
\* an item with its label map followed
ItemView(m, cci) == [m.items[cci] EXCEPT !.Properties.Labels = LabelsOf(m, @)]

\* a set with its item pointers followed
SetView(m, ccis) ==
    [Window |-> m.sets[ccis].Window,
     Integration |-> m.sets[ccis].Integration,
     CloudCostItems |-> [k \in DOMAIN m.sets[ccis].CloudCostItems |->
                            ItemView(m, m.sets[ccis].CloudCostItems[k])]]

KeysOf(m, ccis) == DOMAIN m.sets[ccis].CloudCostItems

\* the cost and the net cost a set holds for a key, 0 when it has none
CostOf(m, ccis, k) ==
    IF k \in KeysOf(m, ccis) THEN m.items[m.sets[ccis].CloudCostItems[k]].Cost ELSE 0

NetCostOf(m, ccis, k) ==
    IF k \in KeysOf(m, ccis) THEN m.items[m.sets[ccis].CloudCostItems[k]].NetCost ELSE 0

\* the item and label-map pointers a set stores
ItemPtrs(m, ccis) == {m.sets[ccis].CloudCostItems[k] : k \in KeysOf(m, ccis)}

LabelPtrs(m, ccis) == {m.items[p].Properties.Labels : p \in ItemPtrs(m, ccis)}

\* the items given to the successful Inserts of a set, in order
Inserted(ccis) == SelectSeq(log, LAMBDA e : e.set = ccis)

InsertedWith(ccis, k) ==
    SelectSeq(log, LAMBDA e : e.set = ccis /\ Key(e.item.Properties) = k)

RECURSIVE SumCost(_)
SumCost(es) == IF es = <<>> THEN 0 ELSE Head(es).item.Cost + SumCost(Tail(es))

RECURSIVE SumNetCost(_)
SumNetCost(es) == IF es = <<>> THEN 0 ELSE Head(es).item.NetCost + SumNetCost(Tail(es))

(***************************************************************************)
(* C4: after any sequence of Insert calls on a set, every stored item's    *)
(* Key() is the map key it is stored under, the keys of the set are        *)
(* exactly the keys of the items inserted, and for each key the stored     *)
(* cost and net cost are the sums over the items inserted with that key;   *)
(* the stored item is a copy of the first of them (its own object, with    *)
(* that item's properties and flag).                                       *)
(***************************************************************************)
C4_InsertKeepsEveryItem ==
    \A ccis \in SetPtrs :
        /\ \A k \in KeysOf(Mem, ccis) :
              Key(items[sets[ccis].CloudCostItems[k]].Properties) = k
        /\ KeysOf(Mem, ccis) =
              {Key(Inserted(ccis)[i].item.Properties) : i \in 1..Len(Inserted(ccis))}
        /\ \A k \in KeysOf(Mem, ccis) :
              LET es == InsertedWith(ccis, k)
                  p == sets[ccis].CloudCostItems[k]
                  first == es[1].item
              IN  /\ items[p].Cost = SumCost(es)
                  /\ items[p].NetCost = SumNetCost(es)
                  /\ p \notin held
                  /\ items[p].IsKubernetes = first.IsKubernetes
                  /\ ItemView(Mem, p).Properties =
                        [first.Properties EXCEPT !.Labels = LabelsOf(Mem, @)]

\* three items inserted: two with one key though their properties differ,
\* one with another key
C4_Witness ==
    /\ Len(Inserted(1)) = 3
    /\ Cardinality(KeysOf(Mem, 1)) = 2
    /\ \E i, j \in 1..3 :
          /\ i < j
          /\ Key(log[i].item.Properties) = Key(log[j].item.Properties)
          /\ log[i].item.Properties.BillingID # log[j].item.Properties.BillingID

(***************************************************************************)
(* C5: two items with the same key inserted into an empty set, in either   *)
(* order, leave one stored item whose cost is the sum of their costs,      *)
(* whose net cost is the sum of their net costs and whose window is the    *)
(* union of their windows.                                                 *)
(***************************************************************************)
C5_SameKeyEitherOrder ==
    (/\ Len(log) = 2
     /\ log[1].set = log[2].set
     /\ Key(log[1].item.Properties) = Key(log[2].item.Properties))
    => LET r1 == log[1].item
           r2 == log[2].item
           ccis == log[1].set
           k == Key(r1.Properties)
       IN  /\ KeysOf(Mem, ccis) = {k}
           /\ CostOf(Mem, ccis, k) = r1.Cost + r2.Cost
           /\ NetCostOf(Mem, ccis, k) = r1.NetCost + r2.NetCost
           /\ items[sets[ccis].CloudCostItems[k]].Window =
                 [start |-> <<Min(r1.Window.start[1], r2.Window.start[1])>>,
                  end |-> <<Max(r1.Window.end[1], r2.Window.end[1])>>]

\* item 2 then item 1 inserted: the later window [0,1] starts before the
\* earlier [1,3]
C5_Witness ==
    /\ Len(log) = 2
    /\ log[1].item = PoolMem.items[2]
    /\ log[2].item = PoolMem.items[1]
    /\ last.op = "Insert"
    /\ ~last.err

\* the memory a call found is still there, unchanged
PreUntouched ==
    /\ \A p \in 1..Len(last.pre.items) : items[p] = last.pre.items[p]
    /\ \A p \in 1..Len(last.pre.labels) : labels[p] = last.pre.labels[p]
    /\ \A p \in 1..Len(last.pre.sets) : sets[p] = last.pre.sets[p]

\* per key, the cost, the net cost and the window a set holds
Contents(m, ccis) ==
    [k \in KeysOf(m, ccis) |->
        [Cost |-> CostOf(m, ccis, k),
         NetCost |-> NetCostOf(m, ccis, k),
         Window |-> m.items[m.sets[ccis].CloudCostItems[k]].Window]]

UnionWindow(w, that) ==
    [start |-> <<Min(w.start[1], that.start[1])>>, end |-> <<Max(w.end[1], that.end[1])>>]

(***************************************************************************)
(* C2: a.Accumulate(b) returns a set whose window is the union of the two  *)
(* windows and whose cost for every key is a's cost plus b's cost, an      *)
(* absent key counting 0; for all sets, those with no items included.      *)
(***************************************************************************)
C2_AccumulateUnionAndSums ==
    last.op = "Accumulate"
    => LET a == last.recv
           b == last.arg
           pre == last.pre
       IN  /\ ~last.err
           /\ last.ret # Nil
           /\ sets[last.ret].Window = UnionWindow(pre.sets[a].Window, pre.sets[b].Window)
           /\ \A k \in KeysOf(pre, a) \cup KeysOf(pre, b) \cup KeysOf(Mem, last.ret) :
                 CostOf(Mem, last.ret, k) = CostOf(pre, a, k) + CostOf(pre, b, k)

\* C2 as amended: the costs are the sums for all sets; the window is the
\* union when both sets hold an item; when one holds none the result is a
\* clone of the other, with the other's window
C2_AsTheCodeIs ==
    last.op = "Accumulate"
    => LET a == last.recv
           b == last.arg
           pre == last.pre
       IN  /\ ~last.err
           /\ last.ret # Nil
           /\ \A k \in KeysOf(pre, a) \cup KeysOf(pre, b) \cup KeysOf(Mem, last.ret) :
                 CostOf(Mem, last.ret, k) = CostOf(pre, a, k) + CostOf(pre, b, k)
           /\ sets[last.ret].Window =
                 IF IsEmpty(pre, a) THEN pre.sets[b].Window
                 ELSE IF IsEmpty(pre, b) THEN pre.sets[a].Window
                 ELSE UnionWindow(pre.sets[a].Window, pre.sets[b].Window)

\* a.Accumulate(b), both holding an item of one key, b another key too,
\* and b's window reaching beyond a's
C2_Witness ==
    /\ last.op = "Accumulate"
    /\ last.ret # Nil
    /\ KeysOf(last.pre, last.recv) \cap KeysOf(last.pre, last.arg) # {}
    /\ KeysOf(last.pre, last.arg) \ KeysOf(last.pre, last.recv) # {}
    /\ last.pre.sets[last.recv].Window # last.pre.sets[last.arg].Window
    /\ sets[last.ret].Window \notin
          {last.pre.sets[last.recv].Window, last.pre.sets[last.arg].Window}

(***************************************************************************)
(* C3: Merge on two sets whose windows are not equal returns an error and  *)
(* no set, whatever the sets hold, and leaves both sets unchanged.         *)
(***************************************************************************)
C3_MergeUnequalWindowsFails ==
    (/\ last.op = "Merge"
     /\ last.recv # Nil
     /\ last.arg # Nil
     /\ last.pre.sets[last.recv].Window # last.pre.sets[last.arg].Window)
    => /\ last.err
       /\ last.ret = Nil
       /\ SetView(Mem, last.recv) = SetView(last.pre, last.recv)
       /\ SetView(Mem, last.arg) = SetView(last.pre, last.arg)

\* what does hold: the error when the argument holds an item; both sets
\* unchanged in every case
C3_AsTheCodeIs ==
    (/\ last.op = "Merge"
     /\ last.recv # Nil
     /\ last.arg # Nil
     /\ last.pre.sets[last.recv].Window # last.pre.sets[last.arg].Window)
    => /\ last.err = ~IsEmpty(last.pre, last.arg)
       /\ last.err => last.ret = Nil
       /\ SetView(Mem, last.recv) = SetView(last.pre, last.recv)
       /\ SetView(Mem, last.arg) = SetView(last.pre, last.arg)

(***************************************************************************)
(* C8: the set a.Accumulate(b) returns carries the Integration tag of the  *)
(* receiver a, for all sets; a.Accumulate(b) and b.Accumulate(a) hold the  *)
(* same contents by key.                                                   *)
(***************************************************************************)
C8_AccumulateKeepsReceiverTag ==
    (last.op = "Accumulate" /\ ~last.err)
    => LET o == Accumulate(last.pre, last.arg, last.recv)
       IN  /\ sets[last.ret].Integration = last.pre.sets[last.recv].Integration
           /\ Contents(Mem, last.ret) = Contents(o.mem, o.ret)

\* what does hold: the contents are the same; the tag is the receiver's only
\* when the argument is empty, the argument's when the receiver is empty, and
\* the empty string otherwise
C8_AsTheCodeIs ==
    (last.op = "Accumulate" /\ ~last.err)
    => LET o == Accumulate(last.pre, last.arg, last.recv)
       IN  /\ Contents(Mem, last.ret) = Contents(o.mem, o.ret)
           /\ sets[last.ret].Integration =
                 IF IsEmpty(last.pre, last.recv) THEN last.pre.sets[last.arg].Integration
                 ELSE IF IsEmpty(last.pre, last.arg) THEN last.pre.sets[last.recv].Integration
                 ELSE ""

(***************************************************************************)
(* C9: Insert and Merge return an error whenever the receiver or the       *)
(* argument is nil, and on every such error nothing is modified.           *)
(***************************************************************************)
C9_NilIsAnError ==
    (/\ last.op \in {"Insert", "Merge"}
     /\ (last.recv = Nil \/ last.arg = Nil))
    => /\ last.err
       /\ Mem = last.pre

\* what does hold: Insert does; Merge returns an error on a nil receiver
\* only, and a clone of the receiver for a nil argument; every error leaves
\* the memory as it was
C9_AsTheCodeIs ==
    /\ (last.op = "Insert" /\ (last.recv = Nil \/ last.arg = Nil)) => last.err
    /\ (last.op = "Merge" /\ last.recv = Nil) => last.err
    /\ (last.op = "Merge" /\ last.recv # Nil /\ last.arg = Nil)
          => /\ ~last.err
             /\ SetView(Mem, last.ret) = SetView(last.pre, last.recv)
    /\ (last.op \in {"Insert", "Merge"} /\ last.err) => Mem = last.pre

(***************************************************************************)
(* C6: Filter leaves the input set untouched and returns a new set that    *)
(* shares no storage with it.  With the nil matcher the result is Equal to *)
(* the input; with another matcher it holds exactly the input's items the  *)
(* predicate holds for, as copies.  An Insert into the result afterwards   *)
(* does not change the input.                                              *)
(***************************************************************************)
C6_FilterCopies ==
    /\ last.op = "Filter"
       => LET in == last.recv
              out == last.ret
              pre == last.pre
          IN  /\ PreUntouched
              /\ out \notin 1..Len(pre.sets)
              /\ ItemPtrs(Mem, out) \cap 1..Len(pre.items) = {}
              /\ LabelPtrs(Mem, out) \cap (0..Len(pre.labels)) = {}
              /\ last.filters = "nil" => CloudCostItemSet_Equal(Mem, out, in)
              /\ last.filters # "nil" =>
                    /\ KeysOf(Mem, out) =
                          {k \in KeysOf(pre, in) :
                              Matches(pre, last.filters, pre.sets[in].CloudCostItems[k])}
                    /\ sets[out].Window = pre.sets[in].Window
                    /\ \A k \in KeysOf(Mem, out) :
                          CloudCostItem_Equal(Mem, sets[out].CloudCostItems[k],
                                              sets[in].CloudCostItems[k])
    /\ (/\ last.op = "Insert"
        /\ ~last.err
        /\ made[last.recv].op = "Filter")
       => SetView(Mem, made[last.recv].from) = SetView(last.pre, made[last.recv].from)

\* an item inserted into the result of a Filter that kept some of the
\* input's items and not others; the result already held its key
C6_Witness ==
    /\ last.op = "Insert"
    /\ ~last.err
    /\ made[last.recv].op = "Filter"
    /\ KeysOf(last.pre, last.recv) # {}
    /\ KeysOf(last.pre, last.recv) # KeysOf(Mem, made[last.recv].from)
    /\ CloudCostItem_Key(Mem, last.arg) \in KeysOf(last.pre, last.recv)
    /\ SetView(Mem, last.recv) # SetView(last.pre, last.recv)

(***************************************************************************)
(* C10: no item is shared by reference between a set and the caller or     *)
(* another set: a stored item and its label map are objects of that set    *)
(* alone, so an Insert that adds into a stored item changes neither the    *)
(* caller's items nor any other set.                                       *)
(***************************************************************************)
C10_NoSharing ==
    /\ \A s \in SetPtrs :
          /\ ItemPtrs(Mem, s) \cap held = {}
          /\ LabelPtrs(Mem, s) \cap ({items[h].Properties.Labels : h \in held} \cup {Nil}) = {}
          /\ Cardinality(ItemPtrs(Mem, s)) = Cardinality(KeysOf(Mem, s))
          /\ Cardinality(LabelPtrs(Mem, s)) = Cardinality(KeysOf(Mem, s))
    /\ \A s, t \in SetPtrs :
          s # t => /\ ItemPtrs(Mem, s) \cap ItemPtrs(Mem, t) = {}
                   /\ LabelPtrs(Mem, s) \cap LabelPtrs(Mem, t) = {}
    /\ (last.op = "Insert" /\ ~last.err)
       => /\ \A h \in held : ItemView(Mem, h) = ItemView(last.pre, h)
          /\ \A s \in SetPtrs \ {last.recv} : SetView(Mem, s) = SetView(last.pre, s)

\* an Insert added into an item stored in a set that Accumulate or Merge
\* built from a set holding that key
C10_Witness ==
    /\ last.op = "Insert"
    /\ ~last.err
    /\ made[last.recv].op \in {"Accumulate", "Merge"}
    /\ CloudCostItem_Key(Mem, last.arg) \in KeysOf(last.pre, last.recv)
    /\ CloudCostItem_Key(Mem, last.arg) \in KeysOf(Mem, made[last.recv].from)
    /\ SetView(Mem, last.recv) # SetView(last.pre, last.recv)

(***************************************************************************)
(* LoadCloudCostItem and the range's Accumulate                            *)
(***************************************************************************)
Buckets == rng.CloudCostItemSets

\* the length of the part of window w inside window that
Overlap(w, that) == Max(0, Min(w.end[1], that.end[1]) - Max(w.start[1], that.start[1]))

RECURSIVE SumOf(_, _)
SumOf(f, n) == IF n = 0 THEN 0 ELSE f[n] + SumOf(f, n - 1)

BucketKeys(m) == UNION {KeysOf(m, Buckets[i]) : i \in 1..Len(Buckets)}

C7_RangeAccumulateSpansRange ==
    last.op = "RangeAccumulate"
    => /\ ~last.err
       /\ last.ret # Nil
       /\ sets[last.ret].Window = rng.Window
       /\ \A k \in BucketKeys(last.pre) \cup KeysOf(Mem, last.ret) :
             CostOf(Mem, last.ret, k) =
                 SumOf([i \in 1..Len(Buckets) |-> CostOf(last.pre, Buckets[i], k)],
                       Len(Buckets))

\* what does hold: the costs are the sums; the window runs from the first
\* bucket that holds an item to the last one that does, and is the last
\* bucket's window when no bucket holds any
C7_AsTheCodeIs ==
    last.op = "RangeAccumulate"
    => LET full == {i \in 1..Len(Buckets) : ~IsEmpty(last.pre, Buckets[i])}
           lo == CHOOSE i \in full : \A j \in full : i <= j
           hi == CHOOSE i \in full : \A j \in full : i >= j
       IN  /\ ~last.err
           /\ last.ret # Nil
           /\ \A k \in BucketKeys(last.pre) \cup KeysOf(Mem, last.ret) :
                 CostOf(Mem, last.ret, k) =
                     SumOf([i \in 1..Len(Buckets) |-> CostOf(last.pre, Buckets[i], k)],
                           Len(Buckets))
           /\ sets[last.ret].Window =
                 IF full = {} THEN sets[Buckets[Len(Buckets)]].Window
                 ELSE [start |-> sets[Buckets[lo]].Window.start,
                       end |-> sets[Buckets[hi]].Window.end]

=============================================================================
